---- MODULE Spec2Model ----
(***************************************************************************)
(* A model of slide_converter.py: the page classifier, the post-processor, *)
(* the render policy, the font profile analyzer, the HTML renderer and the *)
(* document assembler.                                                     *)
(*                                                                         *)
(* Representation.                                                         *)
(*   - A Python string is a sequence of characters; a character is a       *)
(*     one-letter TLA+ string, non-ASCII characters are written by their   *)
(*     code point ("U2022" is the bullet).                                 *)
(*   - A font name is a sequence of name fragments; `m in font_name` is    *)
(*     "some fragment is m".                                               *)
(*   - A font size is kept in half points (48 is 24pt), so that sizes such *)
(*     as 17.5pt and Python's round-half-to-even are exact.                *)
(*   - HTML output is a sequence of tokens: a markup token is the markup   *)
(*     text ("<ul>"), an escaped character is its entity ("&lt;"), any     *)
(*     other character is itself.                                          *)
(*   - None is the empty string where the code only tests truthiness.      *)
(***************************************************************************)
EXTENDS Integers, Sequences, FiniteSets, TLC

VARIABLES
    pc,             \* position of the program in the specification at hand
    \* -- extract_pdf_page / extract_pptx: the page being classified
    fs,             \* font profile {"title", "body"} (points)
    lines_read,     \* the lines of the page consumed so far (input history)
    elements,       \* elements of the page
    list_depth,
    current_bullet, \* index into elements of the open bullet, 0 for None
    title_emitted,
    slide_title,
    \* -- analyze_pdf_fonts
    spans_seen,     \* spans consumed so far (input history)
    size_chars,     \* Counter: sequence of <<rounded size, chars>>, insertion order
    \* -- postprocess_elements
    pp_in,          \* its argument
    pp_i,           \* loop index (1-based)
    pp_result,
    \* -- elements_to_html / assemble_html
    h_in,           \* its argument
    h_i,            \* loop index (1-based)
    parts,
    in_list,
    html_doc,       \* assembled document body
    \* -- convert_file / extract_pdf / extract_pptx
    ext,            \* ".pdf" or ".pptx"
    doc,            \* the source document: a sequence of pages (or slides)
    render_mode,
    pn,             \* pages extracted so far
    toc,
    pages,
    pages_html

vars == <<pc, fs, lines_read, elements, list_depth, current_bullet, title_emitted,
          slide_title, spans_seen, size_chars, pp_in, pp_i, pp_result, h_in, h_i,
          parts, in_list, html_doc, ext, doc, render_mode, pn, toc, pages,
          pages_html>>

pageVars == <<fs, lines_read, elements, list_depth, current_bullet, title_emitted,
              slide_title>>
fontVars == <<spans_seen, size_chars>>
postVars == <<pp_in, pp_i, pp_result>>
htmlVars == <<h_in, h_i, parts, in_list, html_doc>>
fileVars == <<ext, doc, render_mode, pn, toc, pages, pages_html>>

----------------------------------------------------------------------------
(* Bounds of the model *)

MaxLines == 3       \* lines of a page given to the classifier (SpecPage)
MaxSpans == 4       \* spans of a document given to the analyzer (SpecFonts)
MaxElems == 4       \* elements given to the post-processor (SpecPost)
MaxHtmlElems == 2   \* elements given to the HTML renderer (SpecHtml)
MaxPages == 2       \* pages of a document (Spec)

----------------------------------------------------------------------------
(* Constants of the program *)

MATH_FONTS == {"CambriaMath", "Cambria Math", "MT-Extra", "Symbol"}

RENDER_AUTO == "auto"
RENDER_ALL == "all"
RENDER_NONE == "none"

TITLE == "title"
BULLET == "bullet"
EQUATION == "equation"
CODE == "code"
LABEL == "label"
BODY == "body"
IMAGE == "image"
RENDER == "render"
TABLE == "table"

\* "•‣●○"
TopGlyphs == {"U2022", "U2023", "U25CF", "U25CB"}
\* "–—‒"
SubGlyphs == {"U2013", "U2014", "U2012"}

Whitespace == {" ", "\t", "\n"}
Digits == <<"0", "1", "2", "3", "4", "5", "6", "7", "8", "9">>
None == <<>>

----------------------------------------------------------------------------
(* Strings *)

Last(s) == s[Len(s)]
Front(s) == SubSeq(s, 1, Len(s) - 1)

RECURSIVE lstrip(_)
lstrip(t) == IF t # <<>> /\ Head(t) \in Whitespace THEN lstrip(Tail(t)) ELSE t

RECURSIVE rstrip(_)
rstrip(t) == IF t # <<>> /\ Last(t) \in Whitespace THEN rstrip(Front(t)) ELSE t

strip(t) == rstrip(lstrip(t))

\* c in t, for a character c
HasChar(t, c) == \E i \in DOMAIN t : t[i] = c

isdigit(t) == t # <<>> /\ \A i \in DOMAIN t : \E d \in DOMAIN Digits : Digits[d] = t[i]

\* str(n) of a natural number
RECURSIVE str(_)
str(n) == IF n < 10 THEN <<Digits[n + 1]>> ELSE str(n \div 10) \o <<Digits[(n % 10) + 1]>>

\* "".join(ts)
RECURSIVE join(_)
join(ts) == IF ts = <<>> THEN <<>> ELSE Head(ts) \o join(Tail(ts))

\* Python's round() of a size given in half points: half to even
round(h) ==
    IF h % 2 = 0 THEN h \div 2
    ELSE IF ((h - 1) \div 2) % 2 = 0 THEN (h - 1) \div 2 ELSE (h + 1) \div 2

RECURSIVE MaxOf(_)
MaxOf(ns) == IF Len(ns) = 1 THEN ns[1]
             ELSE LET m == MaxOf(Tail(ns)) IN IF ns[1] >= m THEN ns[1] ELSE m

----------------------------------------------------------------------------
(* Helpers *)

\* html.escape(text), quote=True
escChar(c) ==
    CASE c = "&" -> "&amp;"
      [] c = "<" -> "&lt;"
      [] c = ">" -> "&gt;"
      [] c = "\"" -> "&quot;"
      [] c = "'" -> "&#x27;"
      [] OTHER -> c

\* html.escape(text, quote=False)
esc_no_quote(text) ==
    [i \in DOMAIN text |-> IF text[i] \in {"\"", "'"} THEN text[i] ELSE escChar(text[i])]

esc(text) == [i \in DOMAIN text |-> escChar(text[i])]

fontHas(font_name, m) == \E i \in DOMAIN font_name : font_name[i] = m

is_math(font_name) == \E m \in MATH_FONTS : fontHas(font_name, m)

Span(text, font, size) == [text |-> text, font |-> font, size |-> size]

spanTexts(spans) == [i \in DOMAIN spans |-> spans[i].text]

plain_text(spans) == strip(join(spanTexts(spans)))

\* strip_bullet_char: the loop from span i on, with `stripped` and `out`
RECURSIVE strip_loop(_, _, _, _)
strip_loop(spans, i, stripped, out) ==
    IF i > Len(spans) THEN out
    ELSE LET s == spans[i]
             t == lstrip(s.text)
         IN  IF ~stripped
             THEN IF t # <<>> /\ t[1] \in (TopGlyphs \cup SubGlyphs)
                  THEN LET t2 == lstrip(Tail(t))
                       IN  strip_loop(spans, i + 1, TRUE,
                                      IF t2 # <<>> THEN Append(out, [s EXCEPT !.text = t2])
                                      ELSE out)
                  ELSE IF t # <<>>
                  THEN strip_loop(spans, i + 1, TRUE, Append(out, s))
                  ELSE strip_loop(spans, i + 1, FALSE, out)
             ELSE strip_loop(spans, i + 1, TRUE, Append(out, s))

strip_bullet_char(spans) ==
    LET out == strip_loop(spans, 1, FALSE, <<>>)
    IN  IF out # <<>> THEN out ELSE spans

----------------------------------------------------------------------------
(* Elements: el(etype, **kw) *)

Title(spans, page_num) == [type |-> TITLE, spans |-> spans, page_num |-> page_num]
Bullet(spans, level) == [type |-> BULLET, spans |-> spans, level |-> level]
Equation(spans) == [type |-> EQUATION, spans |-> spans]
Code(lines) == [type |-> CODE, lines |-> lines]
Label(spans) == [type |-> LABEL, spans |-> spans]
Body(spans) == [type |-> BODY, spans |-> spans]
Image(data, e, alt) == [type |-> IMAGE, data |-> data, ext |-> e, alt |-> alt]
Render(data, alt) == [type |-> RENDER, data |-> data, alt |-> alt]
Table(rows) == [type |-> TABLE, rows |-> rows]

\* base64.b64encode(b).decode(): the encoding of the bytes b, not b itself
b64encode(b) == <<"b64">> \o b

\* "Slide"
SlideWord == <<"S", "l", "i", "d", "e">>
\* "Figure"
FigureWord == <<"F", "i", "g", "u", "r", "e">>
\* "Image"
ImageWord == <<"I", "m", "a", "g", "e">>

----------------------------------------------------------------------------
(* extract_pdf_page: the classifier.  Its local state is the record        *)
(* [elements, list_depth, current_bullet, title_emitted, slide_title].     *)

NewPageState ==
    [elements |-> <<>>, list_depth |-> 0, current_bullet |-> 0,
     title_emitted |-> FALSE, slide_title |-> None]

close_bullet(st) == [st EXCEPT !.current_bullet = 0]

close_lists(st) == [close_bullet(st) EXCEPT !.list_depth = 0]

NonBlank(s) == strip(s.text) # <<>>

max_size(spans) == MaxOf([i \in DOMAIN spans |-> spans[i].size])

\* max_sz < 15 and y > page_h * 0.80 and text.strip().isdigit()
is_page_number(max_sz, y, page_h, text) ==
    max_sz < 2 * 15 /\ 100 * y > 80 * page_h /\ isdigit(strip(text))

\* the title test without the title_emitted flag
is_title_every(max_sz, f, st) == max_sz >= 2 * (f.title - 2)

\* max_sz >= fs["title"] - 2 and not title_emitted
is_title(max_sz, f, st) == max_sz >= 2 * (f.title - 2) /\ ~st.title_emitted

\* the label test taking a size equal to a threshold as small
is_label_inclusive(max_sz, f) ==
    max_sz <= 2 * (f.body - 6) /\ max_sz <= 2 * (f.title - 10)

\* max_sz < fs["body"] - 6 and max_sz < fs["title"] - 10
is_label(max_sz, f) == max_sz < 2 * (f.body - 6) /\ max_sz < 2 * (f.title - 10)

TitleRule(st, spans, text, page_num) ==
    [close_lists(st) EXCEPT
        !.slide_title = text,
        !.elements = Append(@, Title(spans, page_num)),
        !.title_emitted = TRUE]

\* list_depth after the two ifs of the top-level bullet rule
top_depth(d) == LET d1 == IF d > 1 THEN 1 ELSE d IN IF d1 = 0 THEN 1 ELSE d1

TopBulletRule(st, spans) ==
    [close_bullet(st) EXCEPT
        !.list_depth = top_depth(@),
        !.current_bullet = Len(st.elements) + 1,
        !.elements = Append(@, Bullet(strip_bullet_char(spans), 0))]

\* the sub-bullet rule deepening the list by one instead of setting it to 2
sub_depth_grow(d) == (IF d < 1 THEN 1 ELSE d) + 1

\* list_depth after the two assignments of the sub-bullet rule
sub_depth(d) == LET d1 == IF d < 1 THEN 1 ELSE d IN 2

SubBulletRule(st, spans) ==
    [close_bullet(st) EXCEPT
        !.list_depth = sub_depth(@),
        !.current_bullet = Len(st.elements) + 1,
        !.elements = Append(@, Bullet(strip_bullet_char(spans), 1))]

\* the equation rule without close_bullet()
EquationRule_keep_open(st, spans) == [st EXCEPT !.elements = Append(@, Equation(spans))]

EquationRule(st, spans) ==
    [close_bullet(st) EXCEPT !.elements = Append(@, Equation(spans))]

LabelRule(st, spans) ==
    [close_lists(st) EXCEPT !.elements = Append(@, Label(spans))]

BodyRule(st, spans) ==
    IF st.current_bullet # 0
    THEN [st EXCEPT !.elements[st.current_bullet].spans = @ \o spans]
    ELSE IF st.list_depth > 0
    THEN [st EXCEPT !.current_bullet = Len(st.elements) + 1,
                    !.elements = Append(@, Bullet(spans, st.list_depth - 1))]
    ELSE [st EXCEPT !.elements = Append(@, Body(spans))]

\* One iteration of the line loop
ClassifyLine(st, f, page_num, page_h, line) ==
    LET spans == SelectSeq(line.spans, NonBlank)
    IN  IF spans = <<>> THEN st
        ELSE
        LET text == strip(join(spanTexts(spans)))
            max_sz == max_size(spans)
            all_math == \A i \in DOMAIN spans : is_math(spans[i].font)
        IN  IF text = <<>> THEN st
            ELSE IF is_page_number(max_sz, line.y, page_h, text) THEN st
            ELSE IF is_title(max_sz, f, st) THEN TitleRule(st, spans, text, page_num)
            ELSE IF text[1] \in TopGlyphs THEN TopBulletRule(st, spans)
            ELSE IF text[1] \in SubGlyphs THEN SubBulletRule(st, spans)
            ELSE IF all_math THEN EquationRule(st, spans)
            ELSE IF is_label(max_sz, f) THEN LabelRule(st, spans)
            ELSE BodyRule(st, spans)

RECURSIVE ClassifyLines(_, _, _, _, _)
ClassifyLines(st, f, page_num, page_h, lines) ==
    IF lines = <<>> THEN st
    ELSE ClassifyLines(ClassifyLine(st, f, page_num, page_h, Head(lines)),
                       f, page_num, page_h, Tail(lines))

\* alt=f"Slide {page_num + 1} Figure {idx + 1}", idx 0-based
figure_alt(page_num, idx) ==
    SlideWord \o <<" ">> \o str(page_num + 1) \o <<" ">> \o FigureWord \o <<" ">> \o str(idx + 1)

\* the image loop with a failure ending the loop instead of skipping the image
RECURSIVE image_loop_abort(_, _, _, _)
image_loop_abort(elems, images, page_num, idx) ==
    IF idx >= Len(images) \/ ~images[idx + 1].ok THEN elems
    ELSE image_loop_abort(Append(elems, Image(b64encode(images[idx + 1].image),
                                              images[idx + 1].ext, figure_alt(page_num, idx))),
                          images, page_num, idx + 1)

\* The raster image loop from image idx (0-based) on.  An image is
\* [ok, image, ext]: doc.extract_image raises when ok is FALSE, and the
\* except clause passes.
RECURSIVE image_loop(_, _, _, _)
image_loop(elems, images, page_num, idx) ==
    IF idx >= Len(images) THEN elems
    ELSE LET img == images[idx + 1]
         IN  image_loop(IF img.ok
                        THEN Append(elems, Image(b64encode(img.image), img.ext,
                                                 figure_alt(page_num, idx)))
                        ELSE elems,
                        images, page_num, idx + 1)

----------------------------------------------------------------------------
(* postprocess_elements *)

\* j after `while j < len(elements) and elements[j]["type"] == etype: j += 1`
RECURSIVE run_end(_, _, _)
run_end(elems, j, etype) ==
    IF j <= Len(elems) /\ elems[j].type = etype THEN run_end(elems, j + 1, etype) ELSE j

is_code_text(t) == HasChar(t, ";") \/ HasChar(t, "=") \/ HasChar(t, "(")

\* a code run detected from a single matching label
is_code_run_one_hit(texts) ==
    Len(texts) >= 3 /\ Cardinality({k \in DOMAIN texts : is_code_text(texts[k])}) >= 1

\* len(labels) >= 3 and code_hits >= 2
is_code_run(texts) ==
    Len(texts) >= 3 /\ Cardinality({k \in DOMAIN texts : is_code_text(texts[k])}) >= 2

\* the equation branch without the merge
merge_equations_none(elems, i, j) == SubSeq(elems, i, j - 1)

\* The equation branch: the run elements[i..j-1] of Equation elements
merge_equations(elems, i, j) ==
    IF j > i + 1
    THEN <<Equation(join([k \in 1..(j - i) |-> elems[i + k - 1].spans]))>>
    ELSE <<elems[i]>>

\* The label branch: the run elements[i..j-1] of Label elements
merge_labels(elems, i, j) ==
    LET labels == SubSeq(elems, i, j - 1)
        texts == [k \in DOMAIN labels |-> plain_text(labels[k].spans)]
    IN  IF is_code_run(texts) THEN <<Code(texts)>> ELSE labels

\* One iteration of the outer while loop, at index i (1-based): <<i', result'>>
PostStep(elems, i, result) ==
    LET e == elems[i]
    IN  IF e.type = EQUATION
        THEN LET j == run_end(elems, i + 1, EQUATION)
             IN  <<j, result \o merge_equations(elems, i, j)>>
        ELSE IF e.type = LABEL
        THEN LET j == run_end(elems, i, LABEL)
             IN  <<j, result \o merge_labels(elems, i, j)>>
        ELSE <<i + 1, Append(result, e)>>

RECURSIVE post_loop(_, _, _)
post_loop(elems, i, result) ==
    IF i > Len(elems) THEN result
    ELSE LET nx == PostStep(elems, i, result) IN post_loop(elems, nx[1], nx[2])

postprocess_elements(elems) == post_loop(elems, 1, <<>>)

----------------------------------------------------------------------------
(* extract_pdf_page.  A page is [height, lines, drawings, images]; a line  *)
(* is [spans, y] (blocks that are not text blocks hold no lines).          *)

extract_pdf_page(page, page_num, f) ==
    LET st == close_lists(ClassifyLines(NewPageState, f, page_num, page.height, page.lines))
        withImages == image_loop(st.elements, page.images, page_num, 0)
    IN  [elements |-> postprocess_elements(withImages), slide_title |-> st.slide_title]

----------------------------------------------------------------------------
(* analyze_pdf_fonts.  The Counter is a sequence of <<key, count>> pairs   *)
(* in insertion order.                                                     *)

RECURSIVE counter_add(_, _, _)
counter_add(counter, key, n) ==
    IF counter = <<>> THEN <<<<key, n>>>>
    ELSE IF Head(counter)[1] = key THEN <<<<key, Head(counter)[2] + n>>>> \o Tail(counter)
    ELSE <<Head(counter)>> \o counter_add(Tail(counter), key, n)

\* the histogram weighted by occurrence instead of by character count
CountSpanOccurrence(counter, span) ==
    IF strip(span.text) # <<>> THEN counter_add(counter, round(span.size), 1) ELSE counter

\* One iteration of the innermost loop
CountSpan(counter, span) ==
    LET txt == strip(span.text)
    IN  IF txt # <<>> THEN counter_add(counter, round(span.size), Len(txt)) ELSE counter

\* most_common(1)[0][0]: the first key, in insertion order, of greatest count
RECURSIVE most_common(_)
most_common(counter) ==
    IF Len(counter) = 1 THEN counter[1]
    ELSE LET m == most_common(Tail(counter))
         IN  IF counter[1][2] >= m[2] THEN counter[1] ELSE m

\* sorted(size_chars.keys(), reverse=True)[0]
largest_key(counter) == MaxOf([k \in DOMAIN counter |-> counter[k][1]])

font_profile(counter) ==
    IF counter = <<>> THEN [title |-> 40, body |-> 24]
    ELSE [title |-> largest_key(counter), body |-> most_common(counter)[1]]

RECURSIVE count_spans(_, _)
count_spans(counter, spans) ==
    IF spans = <<>> THEN counter
    ELSE count_spans(CountSpan(counter, Head(spans)), Tail(spans))

\* every span of the page, in reading order
page_spans(page) == join([k \in DOMAIN page.lines |-> page.lines[k].spans])

doc_spans(d) == join([k \in DOMAIN d |-> page_spans(d[k])])

analyze_pdf_fonts(d) == font_profile(count_spans(<<>>, doc_spans(d)))

----------------------------------------------------------------------------
(* page_needs_render *)

is_math_span(span) == strip(span.text) # <<>> /\ is_math(span.font)

\* the drawing threshold off by one
page_needs_render_ge(page) ==
    \/ page.drawings >= 4
    \/ \E k \in DOMAIN page_spans(page) : is_math_span(page_spans(page)[k])

page_needs_render(page) ==
    \/ page.drawings > 4
    \/ \E k \in DOMAIN page_spans(page) : is_math_span(page_spans(page)[k])

should_render(mode, page) ==
    \/ mode = RENDER_ALL
    \/ (mode = RENDER_AUTO /\ page_needs_render(page))

----------------------------------------------------------------------------
(* Span renderers *)

font_wrap_html(font, e) ==
    IF is_math(font) THEN <<"<span class=\"math\">">> \o e \o <<"</span>">>
    ELSE IF fontHas(font, "Bold") /\ fontHas(font, "Italic")
    THEN <<"<strong><em>">> \o e \o <<"</em></strong>">>
    ELSE IF fontHas(font, "Bold") THEN <<"<strong>">> \o e \o <<"</strong>">>
    ELSE IF fontHas(font, "Italic") THEN <<"<em>">> \o e \o <<"</em>">>
    ELSE e

span_to_html(s) == IF s.text = <<>> THEN <<>> ELSE font_wrap_html(s.font, esc(s.text))

spans_to_html(spans) == join([k \in DOMAIN spans |-> span_to_html(spans[k])])

\* a backslash and the characters escaped by the loop; the grave accent is "U0060"
MdSpecial == {"\\", "*", "_", "U0060", "[", "]", "(", ")", "#", ">"}

md_escape(t) == join([k \in DOMAIN t |-> IF t[k] \in MdSpecial THEN <<"\\", t[k]>> ELSE <<t[k]>>])

font_wrap_md(font, t) ==
    IF is_math(font) THEN t
    ELSE IF fontHas(font, "Bold") /\ fontHas(font, "Italic")
    THEN <<"***">> \o md_escape(t) \o <<"***">>
    ELSE IF fontHas(font, "Bold") THEN <<"**">> \o md_escape(t) \o <<"**">>
    ELSE IF fontHas(font, "Italic") THEN <<"*">> \o md_escape(t) \o <<"*">>
    ELSE md_escape(t)

span_to_md(s) == IF s.text = <<>> THEN <<>> ELSE font_wrap_md(s.font, s.text)

spans_to_md(spans) == join([k \in DOMAIN spans |-> span_to_md(spans[k])])

----------------------------------------------------------------------------
(* elements_to_html.  Its local state is [parts, in_list]; parts is the    *)
(* list of parts, each a sequence of tokens.                               *)

NewHtmlState == [parts |-> <<>>, in_list |-> 0]

\* ensure_list with the raising loop only
RECURSIVE ensure_list_raise_only(_, _)
ensure_list_raise_only(st, level) ==
    IF st.in_list < level + 1
    THEN ensure_list_raise_only([parts |-> Append(st.parts, <<"<ul>">>),
                                 in_list |-> st.in_list + 1], level)
    ELSE st

RECURSIVE ensure_list(_, _)
ensure_list(st, level) ==
    IF st.in_list < level + 1
    THEN ensure_list([parts |-> Append(st.parts, <<"<ul>">>), in_list |-> st.in_list + 1], level)
    ELSE IF st.in_list > level + 1
    THEN ensure_list([parts |-> Append(st.parts, <<"</ul>">>), in_list |-> st.in_list - 1], level)
    ELSE st

RECURSIVE close_list(_)
close_list(st) ==
    IF st.in_list > 0
    THEN close_list([parts |-> Append(st.parts, <<"</ul>">>), in_list |-> st.in_list - 1])
    ELSE st

add_part(st, part) == [st EXCEPT !.parts = Append(@, part)]

add_parts(st, ps) == [st EXCEPT !.parts = @ \o ps]

\* "\n".join(ts)
RECURSIVE join_nl(_)
join_nl(ts) ==
    IF ts = <<>> THEN <<>>
    ELSE IF Len(ts) = 1 THEN ts[1]
    ELSE ts[1] \o <<"\n">> \o join_nl(Tail(ts))

anchor_open(n) == <<"<h2 class=\"slide-title\" id=\"slide-">> \o str(n) \o <<"\">">>

html_title(e) == anchor_open(e.page_num + 1) \o spans_to_html(e.spans) \o <<"</h2>">>

html_code(e) ==
    <<"<pre><code>">> \o join_nl([k \in DOMAIN e.lines |-> esc(e.lines[k])])
        \o <<"</code></pre>">>

html_image(e) ==
    <<"<img src=\"data:image/">> \o e.ext \o <<";base64,">> \o e.data
        \o <<"\" alt=\"">> \o esc(e.alt) \o <<"\">">>

html_render(e) ==
    <<"<img class=\"slide-img\" src=\"data:image/png;base64,">> \o e.data
        \o <<"\" alt=\"">> \o esc(e.alt) \o <<"\">">>

open_tag(tag) == IF tag = "th" THEN "<th>" ELSE "<td>"
close_tag(tag) == IF tag = "th" THEN "</th>" ELSE "</td>"

\* the parts of a table row
html_row(row, tag) ==
    <<<<"<tr>">>>>
        \o [k \in DOMAIN row |-> <<open_tag(tag)>> \o esc(row[k]) \o <<close_tag(tag)>>]
        \o <<<<"</tr>">>>>

\* the parts of a table
html_table(e) ==
    <<<<"<table>">>>>
        \o join([ri \in DOMAIN e.rows |-> html_row(e.rows[ri], IF ri = 1 THEN "th" ELSE "td")])
        \o <<<<"</table>">>>>

\* One iteration of the element loop
HtmlStep(st, e) ==
    IF e.type = TITLE THEN add_part(close_list(st), html_title(e))
    ELSE IF e.type = BULLET
    THEN add_part(ensure_list(st, e.level),
                  <<"<li>">> \o spans_to_html(e.spans) \o <<"</li>">>)
    ELSE IF e.type = EQUATION
    THEN add_part(close_list(st),
                  <<"<div class=\"eq\">">> \o spans_to_html(e.spans) \o <<"</div>">>)
    ELSE IF e.type = CODE THEN add_part(close_list(st), html_code(e))
    ELSE IF e.type = LABEL
    THEN add_part(close_list(st),
                  <<"<p class=\"label\">">> \o spans_to_html(e.spans) \o <<"</p>">>)
    ELSE IF e.type = BODY
    THEN add_part(close_list(st), <<"<p>">> \o spans_to_html(e.spans) \o <<"</p>">>)
    ELSE IF e.type = IMAGE THEN add_part(close_list(st), html_image(e))
    ELSE IF e.type = RENDER THEN add_part(close_list(st), html_render(e))
    ELSE IF e.type = TABLE THEN add_parts(close_list(st), html_table(e))
    ELSE st

RECURSIVE html_loop(_, _)
html_loop(st, elems) ==
    IF elems = <<>> THEN st ELSE html_loop(HtmlStep(st, Head(elems)), Tail(elems))

\* close_list() and "\n".join(parts) after the loop
html_finish(st) == join_nl(close_list(st).parts)

elements_to_html(elems) == html_finish(html_loop(NewHtmlState, elems))

----------------------------------------------------------------------------
(* assemble_html.  A table-of-contents entry is <<pn, title>>.             *)

toc_link(n) == <<"<li><a href=\"#slide-">> \o str(n) \o <<"\">">>

toc_entry_html(entry) == toc_link(entry[1]) \o esc(entry[2]) \o <<"</a></li>">>

toc_html(t) ==
    <<"<nav><details open><summary>Table of Contents</summary><ol>">>
        \o join([k \in DOMAIN t |-> toc_entry_html(t[k])])
        \o <<"</ol></details></nav>">>

section_html(page_html) == <<"<section class=\"slide\">", "\n">> \o page_html \o <<"\n", "</section>", "\n">>

assemble_html(title, t, phtml) ==
    <<"<!DOCTYPE html>", "\n", "<html lang=\"en\">", "\n", "<head>", "\n",
      "<meta charset=\"UTF-8\">", "\n", "<title>">> \o esc(title)
        \o <<"</title>", "\n", "<style>", "\n", "CSS", "</style>", "\n", "</head>", "\n",
             "<body>", "\n", "<h1>">> \o esc(title) \o <<"</h1>", "\n">>
        \o toc_html(t) \o <<"\n">>
        \o join([k \in DOMAIN phtml |-> section_html(phtml[k])])
        \o <<"</body>", "\n", "</html>">>

----------------------------------------------------------------------------
(* extract_pptx: one slide.  A slide is a sequence of shapes; a shape is   *)
(* [top, left, has_table, rows, is_picture, image_ok, blob, ext,           *)
(*  has_text_frame, placeholder, paragraphs]; placeholder is the           *)
(* placeholder index, -1 when placeholder_format is None and -2 when       *)
(* reading it raises.  A paragraph is [text, level, runs], a run           *)
(* [text, bold, italic].                                                   *)

\* key=lambda s: (s.top or 0, s.left or 0)
shape_before(a, b) == a.top < b.top \/ (a.top = b.top /\ a.left < b.left)

\* insertion of s into a sorted sequence, after its equals (sorted() is stable)
RECURSIVE sorted_insert(_, _)
sorted_insert(sq, s) ==
    IF sq = <<>> THEN <<s>>
    ELSE IF shape_before(s, Head(sq)) THEN <<s>> \o sq
    ELSE <<Head(sq)>> \o sorted_insert(Tail(sq), s)

RECURSIVE sorted_shapes(_)
sorted_shapes(shapes) ==
    IF shapes = <<>> THEN <<>>
    ELSE sorted_insert(sorted_shapes(Front(shapes)), Last(shapes))

run_font(run) ==
    IF run.bold /\ run.italic THEN <<"Bold", "Italic">>
    ELSE IF run.bold THEN <<"Bold">>
    ELSE IF run.italic THEN <<"Italic">>
    ELSE <<"Normal">>

NonEmptyRun(run) == run.text # <<>>

\* the fake spans of a paragraph; size 24 is 48 half points
para_spans(para) ==
    LET runs == SelectSeq(para.runs, NonEmptyRun)
        spans == [k \in DOMAIN runs |-> Span(runs[k].text, run_font(runs[k]), 2 * 24)]
    IN  IF spans = <<>> THEN <<Span(para.text, <<"Normal">>, 2 * 24)>> ELSE spans

\* min(para.level, 1)
bullet_level(level) == IF level < 1 THEN level ELSE 1

\* The slide state is [elems, slide_title, is_title_shape]
PptxParagraph(st, para, sn) ==
    IF strip(para.text) = <<>> THEN st
    ELSE IF st.is_title_shape /\ st.slide_title = None
    THEN [elems |-> Append(st.elems, Title(para_spans(para), sn - 1)),
          slide_title |-> strip(para.text),
          is_title_shape |-> FALSE]
    ELSE IF para.level > 0
    THEN [st EXCEPT !.elems = Append(@, Bullet(para_spans(para), bullet_level(para.level)))]
    ELSE [st EXCEPT !.elems = Append(@, Body(para_spans(para)))]

RECURSIVE pptx_paragraphs(_, _, _)
pptx_paragraphs(st, paras, sn) ==
    IF paras = <<>> THEN st
    ELSE pptx_paragraphs(PptxParagraph(st, Head(paras), sn), Tail(paras), sn)

\* shape.text
shape_text(shape) == join_nl([k \in DOMAIN shape.paragraphs |-> shape.paragraphs[k].text])

slide_image_alt(sn) == SlideWord \o <<" ">> \o str(sn) \o <<" ">> \o ImageWord

\* One iteration of the shape loop
PptxShape(st, shape, sn) ==
    IF shape.has_table THEN [st EXCEPT !.elems = Append(@, Table(shape.rows))]
    ELSE IF shape.is_picture
    THEN IF shape.image_ok
         THEN [st EXCEPT !.elems = Append(@, Image(b64encode(shape.blob), shape.ext,
                                                   slide_image_alt(sn)))]
         ELSE st
    ELSE IF ~shape.has_text_frame \/ strip(shape_text(shape)) = <<>> THEN st
    ELSE [pptx_paragraphs([st EXCEPT !.is_title_shape = shape.placeholder \in {0, 1}],
                          shape.paragraphs, sn)
          EXCEPT !.is_title_shape = FALSE]

RECURSIVE pptx_shapes(_, _, _)
pptx_shapes(st, shapes, sn) ==
    IF shapes = <<>> THEN st
    ELSE pptx_shapes(PptxShape(st, Head(shapes), sn), Tail(shapes), sn)

\* the body of the slide loop, sn 1-based
extract_pptx_slide(slide, sn) ==
    LET st == pptx_shapes([elems |-> <<>>, slide_title |-> None, is_title_shape |-> FALSE],
                          sorted_shapes(slide), sn)
    IN  [elements |-> st.elems, slide_title |-> st.slide_title]

----------------------------------------------------------------------------
(* Inputs *)

Arial == <<"Arial">>
ArialBold == <<"Arial", "-", "Bold">>
ArialItalic == <<"Arial", "-", "Italic">>
ArialBoldItalic == <<"Arial", "-", "Bold", "Italic">>
CambriaMath == <<"CambriaMath">>
SymbolMT == <<"Symbol", "MT">>

\* page geometry: the page height, a y at the top and one in the bottom 20%
PageGeom == [height |-> 540, top |-> 50, bottom |-> 500]

Line(spans, y) == [spans |-> spans, y |-> y]

\* a line of one span at the top of the page
Line1(text, font, size) == Line(<<Span(text, font, size)>>, PageGeom.top)

L_title == Line1(<<"T">>, Arial, 80)
L_title_near == Line1(<<"N">>, Arial, 77)
L_bullet == Line1(<<"U2022", " ", "a">>, Arial, 48)
L_bullet_split ==
    Line(<<Span(<<"U2022">>, Arial, 48), Span(<<" ", "a">>, Arial, 48)>>, PageGeom.top)
L_bullet_only == Line1(<<"U2022">>, Arial, 48)
L_bullet_big == Line1(<<"U25CF", "T">>, Arial, 80)
L_sub == Line1(<<"U2013", " ", "b">>, Arial, 48)
L_body == Line1(<<"c", " ">>, Arial, 48)
L_math == Line1(<<"x">>, CambriaMath, 48)
L_label == Line1(<<"d", "=">>, Arial, 24)
L_small_175 == Line1(<<"e">>, Arial, 35)
L_small_18 == Line1(<<"f">>, Arial, 36)
L_small_14 == Line1(<<"g">>, Arial, 28)
L_page_number == Line(<<Span(<<"7">>, Arial, 24)>>, PageGeom.bottom)
L_blank_math == Line(<<Span(<<" ">>, CambriaMath, 48), Span(<<"c">>, Arial, 48)>>, PageGeom.top)

LinePool ==
    {L_title, L_title_near, L_bullet, L_bullet_split, L_bullet_only, L_bullet_big, L_sub,
     L_body, L_math, L_label, L_small_175, L_small_18, L_small_14, L_page_number,
     L_blank_math}

\* font profiles of documents: the title size is the largest rounded size
FontProfiles == {[title |-> 40, body |-> 24], [title |-> 24, body |-> 24]}

\* a line of a document whose profile is f: no span is larger than the title size
LineFits(line, f) ==
    \A k \in DOMAIN line.spans :
        NonBlank(line.spans[k]) => round(line.spans[k].size) <= f.title

Img(ok, n) == [ok |-> ok, image |-> <<"i", Digits[n + 1]>>, ext |-> <<"p", "n", "g">>]

\* the embedded images of a page, with the outcome of extracting each
ImageLists ==
    {<<>>, <<Img(TRUE, 1)>>, <<Img(FALSE, 1), Img(TRUE, 2)>>,
     <<Img(TRUE, 1), Img(FALSE, 2), Img(TRUE, 3)>>}

Run(text, bold, italic) == [text |-> text, bold |-> bold, italic |-> italic]
Para(text, level, runs) == [text |-> text, level |-> level, runs |-> runs]
Para1(text, level) == Para(text, level, <<Run(text, FALSE, FALSE)>>)

NoShape ==
    [top |-> 0, left |-> 0, has_table |-> FALSE, rows |-> <<>>, is_picture |-> FALSE,
     image_ok |-> FALSE, blob |-> <<>>, ext |-> <<>>, has_text_frame |-> FALSE,
     placeholder |-> -1, paragraphs |-> <<>>]

TextShape(top, placeholder, paras) ==
    [NoShape EXCEPT !.top = top, !.has_text_frame = TRUE, !.placeholder = placeholder,
                    !.paragraphs = paras]
PictureShape(top, ok) ==
    [NoShape EXCEPT !.top = top, !.is_picture = TRUE, !.image_ok = ok,
                    !.blob = <<"i", "0">>, !.ext = <<"p", "n", "g">>]
TableShape(top, rows) == [NoShape EXCEPT !.top = top, !.has_table = TRUE, !.rows = rows]

S_title == TextShape(1, 0, <<Para1(<<"T">>, 0), Para1(<<"u">>, 0)>>)
S_levels ==
    TextShape(2, -1, <<Para1(<<"p">>, 0), Para1(<<"q">>, 1), Para1(<<"r">>, 3),
                       Para(<<"s">>, 2, <<Run(<<"s">>, TRUE, TRUE)>>)>>)
S_deep == TextShape(2, -2, <<Para(<<"v">>, 4, <<>>), Para1(<<" ">>, 0)>>)
S_picture == PictureShape(3, TRUE)
S_picture_bad == PictureShape(0, FALSE)
S_table == TableShape(2, <<<<<<"h">>, <<"<">>>>, <<<<"1">>, <<"&">>>>>>)

ShapePool == {S_title, S_levels, S_deep, S_picture, S_picture_bad, S_table}

RECURSIVE SeqsUpTo(_, _)
SeqsUpTo(S, n) ==
    IF n = 0 THEN {<<>>}
    ELSE LET shorter == SeqsUpTo(S, n - 1)
         IN  shorter \cup {Append(sq, x) : sq \in shorter, x \in S}

MaxShapes == 2      \* shapes of a slide (SpecPage)

SlidePool == SeqsUpTo(ShapePool, MaxShapes)

----------------------------------------------------------------------------
(* Values of the variables a specification does not use *)

IdlePage ==
    /\ fs = [title |-> 40, body |-> 24]
    /\ lines_read = <<>>
    /\ elements = <<>>
    /\ list_depth = 0
    /\ current_bullet = 0
    /\ title_emitted = FALSE
    /\ slide_title = None
IdleFonts == spans_seen = <<>> /\ size_chars = <<>>
IdlePost == pp_in = <<>> /\ pp_i = 1 /\ pp_result = <<>>
IdleHtml == h_in = <<>> /\ h_i = 1 /\ parts = <<>> /\ in_list = 0 /\ html_doc = <<>>
IdleFile ==
    /\ ext = ".pdf"
    /\ doc = <<>>
    /\ render_mode = RENDER_AUTO
    /\ pn = 0
    /\ toc = <<>>
    /\ pages = <<>>
    /\ pages_html = <<>>

----------------------------------------------------------------------------
(* SpecPage: extract_pdf_page on the lines of one page, read one by one,   *)
(* and extract_pptx on one slide.                                          *)

PageState ==
    [elements |-> elements, list_depth |-> list_depth, current_bullet |-> current_bullet,
     title_emitted |-> title_emitted, slide_title |-> slide_title]

SetPageState(st) ==
    /\ elements' = st.elements
    /\ list_depth' = st.list_depth
    /\ current_bullet' = st.current_bullet
    /\ title_emitted' = st.title_emitted
    /\ slide_title' = st.slide_title

InitPage ==
    /\ pc \in {"pdf", "pptx"}
    /\ fs \in FontProfiles
    /\ pc = "pptx" => fs = [title |-> 40, body |-> 24]
    /\ lines_read = <<>>
    /\ elements = <<>>
    /\ list_depth = 0
    /\ current_bullet = 0
    /\ title_emitted = FALSE
    /\ slide_title = None
    /\ IdleFonts /\ IdlePost /\ IdleHtml /\ IdleFile

\* one iteration of the line loop of extract_pdf_page
ReadLine ==
    /\ pc = "pdf"
    /\ Len(lines_read) < MaxLines
    /\ \E line \in LinePool :
        /\ LineFits(line, fs)
        /\ lines_read' = Append(lines_read, line)
        /\ SetPageState(ClassifyLine(PageState, fs, 0, PageGeom.height, line))
    /\ UNCHANGED <<pc, fs, fontVars, postVars, htmlVars, fileVars>>

\* the rest of extract_pdf_page: close_lists, the image loop, postprocess_elements
FinishPage ==
    /\ pc = "pdf"
    /\ pc' = "done"
    /\ \E images \in ImageLists :
        SetPageState([close_lists(PageState) EXCEPT
            !.elements = postprocess_elements(image_loop(elements, images, 0, 0))])
    /\ UNCHANGED <<fs, lines_read, fontVars, postVars, htmlVars, fileVars>>

\* the body of the slide loop of extract_pptx
ExtractSlide ==
    /\ pc = "pptx"
    /\ pc' = "done"
    /\ \E slide \in SlidePool :
        LET r == extract_pptx_slide(slide, 1)
        IN  /\ elements' = r.elements
            /\ slide_title' = r.slide_title
    /\ UNCHANGED <<fs, lines_read, list_depth, current_bullet, title_emitted,
                   fontVars, postVars, htmlVars, fileVars>>

NextPage == ReadLine \/ FinishPage \/ ExtractSlide

SpecPage == InitPage /\ [][NextPage]_vars

----------------------------------------------------------------------------
(* Claims about the classifier *)

BulletIndices == {i \in DOMAIN elements : elements[i].type = BULLET}

\* C5: list_depth is 0, 1 or 2, every Bullet emitted by the PDF classifier
\* or the slide extractor has level 0 or 1, and the levels of two Bullets
\* with no Bullet between them differ by at most one.
C5_BulletLevels ==
    /\ list_depth \in {0, 1, 2}
    /\ \A i \in BulletIndices : elements[i].level \in {0, 1}
    /\ \A i, j \in BulletIndices :
        (i < j /\ \A k \in BulletIndices : ~(i < k /\ k < j))
            => elements[i].level - elements[j].level \in {-1, 0, 1}

\* a sub-bullet is open right after a top-level bullet
C5_Witness ==
    /\ pc = "pdf"
    /\ list_depth = 2
    /\ Len(elements) >= 2
    /\ Last(elements).type = BULLET /\ Last(elements).level = 1
    /\ elements[Len(elements) - 1].type = BULLET /\ elements[Len(elements) - 1].level = 0

LineText(line) == strip(join(spanTexts(SelectSeq(line.spans, NonBlank))))

PlainFont(font) == ~is_math(font) /\ ~fontHas(font, "Bold") /\ ~fontHas(font, "Italic")

\* C6: a line that starts with a top-level bullet glyph followed by some
\* text, however it is split into spans, and that reaches the bullet rule
\* (it is not taken as the Title) gives a Bullet of level 0 whose span run
\* is the line's text without the glyph and the whitespace after it, and
\* both renderers render that text (the line being in a plain font).
C6_BulletRoundTrip ==
    (/\ pc = "pdf"
     /\ lines_read # <<>>
     /\ LineText(Last(lines_read)) # <<>>
     /\ LineText(Last(lines_read))[1] \in TopGlyphs
     /\ lstrip(Tail(LineText(Last(lines_read)))) # <<>>
     /\ \A k \in DOMAIN Last(lines_read).spans : PlainFont(Last(lines_read).spans[k].font)
     /\ Last(elements).type # TITLE)
        => LET expected == lstrip(Tail(LineText(Last(lines_read))))
               b == Last(elements)
           IN  /\ b.type = BULLET
               /\ b.level = 0
               /\ join(spanTexts(b.spans)) = expected
               /\ spans_to_html(b.spans) = esc(expected)
               /\ spans_to_md(b.spans) = md_escape(expected)

\* the spans of a line that the line loop keeps
KeptSpans(line) == SelectSeq(line.spans, NonBlank)

\* the line is the one the classifier reads in this step
IsRead(line) == pc = "pdf" /\ lines_read' = Append(lines_read, line)

\* the line passes the page-number, title, bullet, sub-bullet and equation
\* rules in the current state, so that the label rule decides it
ReachesLabelRule(line) ==
    /\ LineText(line) # <<>>
    /\ ~is_page_number(max_size(KeptSpans(line)), line.y, PageGeom.height, LineText(line))
    /\ (title_emitted \/ max_size(KeptSpans(line)) < 2 * (fs.title - 2))
    /\ LineText(line)[1] \notin TopGlyphs \cup SubGlyphs
    /\ \E k \in DOMAIN KeptSpans(line) : ~is_math(KeptSpans(line)[k].font)

\* the step emits the line as a Label and closes the list state
HandledAsLabel(line) ==
    /\ elements' = Append(elements, Label(KeptSpans(line)))
    /\ list_depth' = 0
    /\ current_bullet' = 0

\* the step treats the line as a body/continuation line
HandledAsBody(line) ==
    /\ list_depth' = list_depth
    /\ IF current_bullet # 0
       THEN /\ current_bullet' = current_bullet
            /\ Len(elements') = Len(elements)
            /\ elements'[current_bullet].spans =
                   elements[current_bullet].spans \o KeptSpans(line)
       ELSE IF list_depth > 0
       THEN /\ current_bullet' = Len(elements')
            /\ elements' = Append(elements, Bullet(KeptSpans(line), list_depth - 1))
       ELSE /\ current_bullet' = 0
            /\ elements' = Append(elements, Body(KeptSpans(line)))

\* sizes are in half points
AtLeastBelow(line) ==
    /\ max_size(KeptSpans(line)) <= 2 * (fs.body - 6)
    /\ max_size(KeptSpans(line)) <= 2 * (fs.title - 10)

StrictlyBelow(line) ==
    /\ max_size(KeptSpans(line)) < 2 * (fs.body - 6)
    /\ max_size(KeptSpans(line)) < 2 * (fs.title - 10)

\* C11 as stated: a line that reaches the label rule is emitted as a Label,
\* with the list state closed, whenever its maximum span size is at least
\* 6pt below body_size and at least 10pt below title_size, the size
\* body_size - 6 included; otherwise it is handled as a body line.
C11_LabelAtLeastBelow ==
    [][\A line \in LinePool :
        (IsRead(line) /\ ReachesLabelRule(line))
            => IF AtLeastBelow(line) THEN HandledAsLabel(line) ELSE HandledAsBody(line)]_vars

\* C11 amended: a line that reaches the label rule is emitted as a Label,
\* with the list state closed, exactly when its maximum span size is more
\* than 6pt below body_size and more than 10pt below title_size; a line of
\* size exactly body_size - 6 or title_size - 10, and every larger one, is
\* handled as a body/continuation line.
C11_LabelStrictlyBelow ==
    [][\A line \in LinePool :
        (IsRead(line) /\ ReachesLabelRule(line))
            => IF StrictlyBelow(line) THEN HandledAsLabel(line) ELSE HandledAsBody(line)]_vars

\* a bullet, then a 12pt line emitted as a Label that closes the list, then
\* an 18pt line (body_size - 6 exactly) emitted as a Body
C11_Witness ==
    /\ pc = "pdf"
    /\ fs = [title |-> 40, body |-> 24]
    /\ lines_read = <<L_bullet, L_label, L_small_18>>
    /\ Len(elements) = 3
    /\ elements[2] = Label(L_label.spans)
    /\ elements[3] = Body(L_small_18.spans)
    /\ list_depth = 0 /\ current_bullet = 0

\* the line loop skips the line: no text, or a page number
Suppressed(line) ==
    \/ LineText(line) = <<>>
    \/ is_page_number(max_size(KeptSpans(line)), line.y, PageGeom.height, LineText(line))

\* a line the loop does not skip whose size crosses the title threshold
TitleSized(line) ==
    ~Suppressed(line) /\ max_size(KeptSpans(line)) >= 2 * (fs.title - 2)

TitleSizedLines == {k \in DOMAIN lines_read : TitleSized(lines_read[k])}

Titles(elems) == {i \in DOMAIN elems : elems[i].type = TITLE}

\* the page has no Title before its first title-sized line, and from then
\* on exactly one, made of that line
OneTitleFromFirst ==
    pc = "pdf" =>
        IF TitleSizedLines = {}
        THEN Titles(elements) = {} /\ ~title_emitted /\ slide_title = None
        ELSE LET k == CHOOSE k \in TitleSizedLines : \A j \in TitleSizedLines : k <= j
             IN  /\ Cardinality(Titles(elements)) = 1
                 /\ \A i \in Titles(elements) :
                        elements[i] = Title(KeptSpans(lines_read[k]), 0)
                 /\ slide_title = LineText(lines_read[k])
                 /\ title_emitted

\* the step that reads a line makes it the Title, resetting the list state,
\* when it is title-sized and no Title was emitted; any other line that is
\* not skipped goes to the bullet, equation, label and body rules
TitleStep(line) ==
    IF TitleSized(line) /\ ~title_emitted
    THEN /\ elements' = Append(elements, Title(KeptSpans(line), 0))
         /\ list_depth' = 0
         /\ current_bullet' = 0
         /\ title_emitted'
    ELSE /\ title_emitted' = title_emitted
         /\ slide_title' = slide_title
         /\ Titles(elements') = Titles(elements)
         /\ IF LineText(line)[1] \in TopGlyphs \cup SubGlyphs
            THEN /\ Len(elements') = Len(elements) + 1
                 /\ Last(elements').type = BULLET
                 /\ Last(elements').level = (IF LineText(line)[1] \in TopGlyphs THEN 0 ELSE 1)
            ELSE IF \A k \in DOMAIN KeptSpans(line) : is_math(KeptSpans(line)[k].font)
            THEN elements' = Append(elements, Equation(KeptSpans(line)))
            ELSE \/ /\ Len(elements') = Len(elements) + 1
                    /\ Last(elements').type \in {LABEL, BODY, BULLET}
                    /\ Last(elements').spans = KeptSpans(line)
                 \/ /\ Len(elements') = Len(elements)
                    /\ current_bullet # 0
                    /\ elements'[current_bullet].type = BULLET

\* C12: the classifier emits at most one Title on a page; it is made from
\* the first line, not skipped, whose maximum span size is at least
\* title_size - 2, it resets list_depth to 0 and closes the open bullet, and
\* every later line, one of title size too, is classified by the bullet,
\* equation, label and body rules and never as a second Title.
C12_OneTitle ==
    /\ []OneTitleFromFirst
    /\ [][\A line \in LinePool :
            (IsRead(line) /\ ~Suppressed(line)) => TitleStep(line)]_vars

\* a bullet, the Title, and a second title-sized line emitted as a Body
C12_Witness ==
    /\ pc = "pdf"
    /\ fs = [title |-> 40, body |-> 24]
    /\ lines_read = <<L_bullet, L_title_near, L_title>>
    /\ Len(elements) = 3
    /\ elements[2] = Title(L_title_near.spans, 0)
    /\ elements[3] = Body(L_title.spans)
    /\ list_depth = 0 /\ current_bullet = 0

\* an open bullet is the last element emitted, and its level is one less
\* than list_depth
OpenBulletIsLast ==
    (pc = "pdf" /\ current_bullet # 0) =>
        /\ current_bullet = Len(elements)
        /\ elements[current_bullet].type = BULLET
        /\ list_depth >= 1
        /\ elements[current_bullet].level = list_depth - 1

AllMath(line) == \A k \in DOMAIN KeptSpans(line) : is_math(KeptSpans(line)[k].font)

\* the line passes the page-number, title and bullet rules and is all-math
ReachesEquationRule(line) ==
    /\ ~Suppressed(line)
    /\ ~(TitleSized(line) /\ ~title_emitted)
    /\ LineText(line)[1] \notin TopGlyphs \cup SubGlyphs
    /\ AllMath(line)

\* what the step that reads the line does to the list state and the elements
ListStep(line) ==
    IF TitleSized(line) /\ ~title_emitted
    THEN list_depth' = 0 /\ current_bullet' = 0 /\ Last(elements').type = TITLE
    ELSE IF ReachesEquationRule(line)
    THEN /\ list_depth' = list_depth
         /\ current_bullet' = 0
         /\ elements' = Append(elements, Equation(KeptSpans(line)))
    ELSE IF ReachesLabelRule(line) /\ StrictlyBelow(line)
    THEN list_depth' = 0 /\ current_bullet' = 0 /\ Last(elements').type = LABEL
    ELSE IF ReachesLabelRule(line)
    THEN /\ list_depth' = list_depth
         /\ IF current_bullet # 0
            THEN /\ current_bullet' = current_bullet
                 /\ elements' = [elements EXCEPT
                        ![Len(elements)].spans = @ \o KeptSpans(line)]
            ELSE IF list_depth > 0
            THEN /\ current_bullet' = Len(elements) + 1
                 /\ elements' = Append(elements, Bullet(KeptSpans(line), list_depth - 1))
            ELSE /\ current_bullet' = 0
                 /\ elements' = Append(elements, Body(KeptSpans(line)))
    ELSE TRUE

\* C14: a body/continuation line is appended to the open bullet, which is
\* always the last element emitted (no earlier element is modified); with no
\* bullet open it opens a Bullet of level list_depth - 1 when list_depth > 0
\* and is emitted as a Body otherwise.  An open bullet implies list_depth >= 1
\* and has level list_depth - 1.  A Title or a Label resets list_depth to 0;
\* an Equation closes the open bullet and leaves list_depth unchanged.
C14_Continuation ==
    /\ []OpenBulletIsLast
    /\ [][\A line \in LinePool : (IsRead(line) /\ ~Suppressed(line)) => ListStep(line)]_vars

\* a sub-bullet continued by a body line, then an Equation that closes the
\* bullet and leaves list_depth at 2
C14_Witness ==
    /\ pc = "pdf"
    /\ lines_read = <<L_sub, L_body, L_math>>
    /\ Len(elements) = 2
    /\ elements[1] = Bullet(strip_bullet_char(L_sub.spans) \o L_body.spans, 1)
    /\ elements[2] = Equation(L_math.spans)
    /\ list_depth = 2
    /\ current_bullet = 0

----------------------------------------------------------------------------
(* SpecPost: postprocess_elements on an element sequence, one iteration of *)
(* its outer loop at a time.                                               *)

E_eq_x == Equation(<<Span(<<"x">>, CambriaMath, 48)>>)
E_eq_y == Equation(<<Span(<<"y">>, SymbolMT, 48), Span(<<"z">>, CambriaMath, 48)>>)
E_label_assign == Label(<<Span(<<"a", "=">>, Arial, 24)>>)
E_label_call == Label(<<Span(<<" ", "f">>, Arial, 24), Span(<<"(", " ">>, Arial, 24)>>)
E_label_semi == Label(<<Span(<<";">>, Arial, 24)>>)
E_label_plain == Label(<<Span(<<"n", " ">>, Arial, 24)>>)
E_body == Body(<<Span(<<"c">>, Arial, 48)>>)

PostPool ==
    {E_eq_x, E_eq_y, E_label_assign, E_label_call, E_label_semi, E_label_plain, E_body}

InitPost ==
    /\ pc = "post"
    /\ pp_in \in SeqsUpTo(PostPool, MaxElems)
    /\ pp_i = 1
    /\ pp_result = <<>>
    /\ IdlePage /\ IdleFonts /\ IdleHtml /\ IdleFile

\* one iteration of the outer while loop
PostIterate ==
    /\ pc = "post"
    /\ pp_i <= Len(pp_in)
    /\ pp_i' = PostStep(pp_in, pp_i, pp_result)[1]
    /\ pp_result' = PostStep(pp_in, pp_i, pp_result)[2]
    /\ UNCHANGED <<pc, pp_in, pageVars, fontVars, htmlVars, fileVars>>

\* return result
PostReturn ==
    /\ pc = "post"
    /\ pp_i > Len(pp_in)
    /\ pc' = "done"
    /\ UNCHANGED <<postVars, pageVars, fontVars, htmlVars, fileVars>>

NextPost == PostIterate \/ PostReturn

SpecPost == InitPost /\ [][NextPost]_vars

----------------------------------------------------------------------------
(* Claims about the post-processor *)

\* the k-th smallest member of a set of numbers
Kth(S, k) == CHOOSE x \in S : Cardinality({y \in S : y < x}) = k - 1

\* the indices at which a maximal run of elements of type etype starts
RunStarts(elems, etype) ==
    {i \in DOMAIN elems : elems[i].type = etype /\ (i = 1 \/ elems[i - 1].type # etype)}

\* the last index of the maximal run that starts at i
RunLast(elems, i) ==
    CHOOSE j \in i..Len(elems) :
        /\ \A k \in i..j : elems[k].type = elems[i].type
        /\ j = Len(elems) \/ elems[j + 1].type # elems[i].type

TypeIndices(elems, etype) == {i \in DOMAIN elems : elems[i].type = etype}

NoAdjacent(elems, etype) ==
    \A i \in 1..(Len(elems) - 1) : ~(elems[i].type = etype /\ elems[i + 1].type = etype)

\* C1: the result holds one Equation per maximal run of Equations of the
\* argument, in order, its spans the concatenation of the run's spans (a run
\* of one passes through unchanged), so no two Equations are adjacent.
C1_EquationsMerged ==
    pc = "done" =>
        /\ NoAdjacent(pp_result, EQUATION)
        /\ Cardinality(TypeIndices(pp_result, EQUATION))
              = Cardinality(RunStarts(pp_in, EQUATION))
        /\ \A k \in 1..Cardinality(RunStarts(pp_in, EQUATION)) :
              LET i == Kth(RunStarts(pp_in, EQUATION), k)
                  j == RunLast(pp_in, i)
                  r == pp_result[Kth(TypeIndices(pp_result, EQUATION), k)]
              IN  /\ r.spans = join([m \in 1..(j - i + 1) |-> pp_in[i + m - 1].spans])
                  /\ (i = j => r = pp_in[i])

\* three consecutive Equations became one, between two other elements
C1_Witness ==
    /\ pc = "done"
    /\ Len(pp_in) = 4
    /\ \A k \in 1..3 : pp_in[k].type = EQUATION
    /\ pp_in[1] # pp_in[2]
    /\ Len(pp_result) = 2
    /\ pp_result[1].type = EQUATION
    /\ pp_result[1].spans = pp_in[1].spans \o pp_in[2].spans \o pp_in[3].spans

IsLabelOrCode(e) == e.type \in {LABEL, CODE}

LooksLikeCode(e) ==
    \E k \in DOMAIN e.spans : \E c \in {";", "=", "("} : HasChar(e.spans[k].text, c)

\* what the run of Labels pp_in[i..j] becomes
LabelRunResult(i, j) ==
    LET n == j - i + 1
        hits == Cardinality({k \in i..j : LooksLikeCode(pp_in[k])})
    IN  IF n >= 3 /\ hits >= 2
        THEN <<Code([m \in 1..n |-> strip(join(spanTexts(pp_in[i + m - 1].spans)))])>>
        ELSE SubSeq(pp_in, i, j)

\* C2: a maximal run of Labels becomes one Code element of the labels'
\* plain texts exactly when it has at least 3 labels of which at least 2
\* contain ';', '=' or '('; otherwise its labels pass through unchanged, in
\* order.  No two Code elements are adjacent.
C2_CodeDetection ==
    pc = "done" =>
        /\ SelectSeq(pp_result, IsLabelOrCode)
              = join([k \in 1..Cardinality(RunStarts(pp_in, LABEL)) |->
                        LET i == Kth(RunStarts(pp_in, LABEL), k)
                        IN  LabelRunResult(i, RunLast(pp_in, i))])
        /\ NoAdjacent(pp_result, CODE)

\* three Labels of which exactly two match became one Code element
C2_Witness ==
    /\ pc = "done"
    /\ Len(pp_in) = 4
    /\ \A k \in 1..3 : pp_in[k].type = LABEL
    /\ Cardinality({k \in 1..3 : LooksLikeCode(pp_in[k])}) = 2
    /\ pp_in[4].type # LABEL
    /\ Len(pp_result) = 2
    /\ pp_result[1].type = CODE
    /\ Len(pp_result[1].lines) = 3

----------------------------------------------------------------------------
(* SpecFonts: analyze_pdf_fonts on the spans of a document, read one by    *)
(* one.                                                                    *)

SpanPool ==
    {Span(<<"H">>, Arial, 80),
     Span(<<"a", "b", "c">>, Arial, 48),
     Span(<<" ", "d", "e", " ">>, ArialBold, 49),
     Span(<<"w", "x", "y", "z">>, CambriaMath, 51),
     Span(<<" ", " ">>, Arial, 100),
     Span(<<"g", "h">>, Arial, 24)}

InitFonts ==
    /\ pc = "count"
    /\ spans_seen = <<>>
    /\ size_chars = <<>>
    /\ IdlePage /\ IdlePost /\ IdleHtml /\ IdleFile

\* one iteration of the innermost loop
CountNextSpan ==
    /\ pc = "count"
    /\ Len(spans_seen) < MaxSpans
    /\ \E span \in SpanPool :
        /\ spans_seen' = Append(spans_seen, span)
        /\ size_chars' = CountSpan(size_chars, span)
    /\ UNCHANGED <<pc, pageVars, postVars, htmlVars, fileVars>>

\* the statements after the loops
ReturnProfile ==
    /\ pc = "count"
    /\ pc' = "done"
    /\ fs' = font_profile(size_chars)
    /\ UNCHANGED <<lines_read, elements, list_depth, current_bullet, title_emitted,
                   slide_title, fontVars, postVars, htmlVars, fileVars>>

NextFonts == CountNextSpan \/ ReturnProfile

SpecFonts == InitFonts /\ [][NextFonts]_vars

----------------------------------------------------------------------------
(* Claims about the font profile *)

RoundedSizes == {round(spans_seen[k].size) : k \in {m \in DOMAIN spans_seen : NonBlank(spans_seen[m])}}

\* the characters of stripped text at rounded size r among the spans
RECURSIVE Mass(_, _)
Mass(spans, r) ==
    IF spans = <<>> THEN 0
    ELSE (IF round(Head(spans).size) = r THEN Len(strip(Head(spans).text)) ELSE 0)
            + Mass(Tail(spans), r)

\* C9: with a non-blank span, body_size is a rounded size of greatest
\* accumulated character count and title_size the largest rounded size;
\* without one the profile is title=40, body=24; analysing the same spans
\* again gives the same profile.
C9_FontProfile ==
    pc = "done" =>
        /\ RoundedSizes = {} => fs = [title |-> 40, body |-> 24]
        /\ RoundedSizes # {} =>
              /\ fs.title \in RoundedSizes
              /\ \A r \in RoundedSizes : r <= fs.title
              /\ fs.body \in RoundedSizes
              /\ \A r \in RoundedSizes : Mass(spans_seen, r) <= Mass(spans_seen, fs.body)
        /\ fs = analyze_pdf_fonts(<<[lines |-> <<[spans |-> spans_seen]>>]>>)

\* two huge-font words read first, and a greater mass of 24pt text: body is 24
C9_Witness ==
    /\ pc = "done"
    /\ Len(spans_seen) = 3
    /\ spans_seen[1].size = 80 /\ spans_seen[2].size = 80
    /\ fs = [title |-> 40, body |-> 24]

----------------------------------------------------------------------------
(* SpecHtml: elements_to_html on an element sequence, one element at a     *)
(* time, and assemble_html on its result.                                  *)

PngExt == <<"p", "n", "g">>

HtmlPool ==
    {Title(<<Span(<<"<">>, ArialBold, 80)>>, 0),
     Bullet(<<Span(<<"&">>, ArialItalic, 48)>>, 0),
     Bullet(<<Span(<<"\"">>, CambriaMath, 48), Span(<<>>, Arial, 48)>>, 1),
     Equation(<<Span(<<">">>, CambriaMath, 48)>>),
     Code(<<<<"<", "s", ">">>, <<"'">>>>),
     Label(<<Span(<<"'">>, ArialBoldItalic, 24)>>),
     Body(<<Span(<<"<", "s", ">">>, Arial, 48)>>),
     Image(b64encode(<<"i", "1">>), PngExt, <<"A", "\"">>),
     Render(b64encode(<<"p", "1">>), <<"B", "&">>),
     Table(<<<<<<"h">>, <<"<">>>>, <<<<"1">>, <<"&">>>>>>)}

\* file stems and table-of-contents titles
StemPool == {<<"a", "&", "b">>}
TocTitlePool == {<<"<", "s", ">">>, SlideWord \o <<" ", "1">>}

InitHtml ==
    /\ pc = "html"
    /\ h_in \in SeqsUpTo(HtmlPool, MaxHtmlElems)
    /\ h_i = 1
    /\ parts = <<>>
    /\ in_list = 0
    /\ html_doc = <<>>
    /\ IdlePage /\ IdleFonts /\ IdlePost /\ IdleFile

\* one iteration of the element loop
HtmlElement ==
    /\ pc = "html"
    /\ h_i <= Len(h_in)
    /\ LET st == HtmlStep([parts |-> parts, in_list |-> in_list], h_in[h_i])
       IN  parts' = st.parts /\ in_list' = st.in_list
    /\ h_i' = h_i + 1
    /\ UNCHANGED <<pc, h_in, html_doc, pageVars, fontVars, postVars, fileVars>>

\* close_list() and the return after the loop
HtmlReturn ==
    /\ pc = "html"
    /\ h_i > Len(h_in)
    /\ pc' = "assemble"
    /\ LET st == close_list([parts |-> parts, in_list |-> in_list])
       IN  /\ parts' = st.parts
           /\ in_list' = st.in_list
           /\ pages_html' = <<join_nl(st.parts)>>
    /\ UNCHANGED <<h_in, h_i, html_doc, pageVars, fontVars, postVars,
                   ext, doc, render_mode, pn, toc, pages>>

\* assemble_html on the page and a one-entry table of contents
AssembleOne ==
    /\ pc = "assemble"
    /\ pc' = "done"
    /\ \E stem \in StemPool, t \in TocTitlePool :
        /\ toc' = <<<<1, t>>>>
        /\ html_doc' = assemble_html(stem, <<<<1, t>>>>, pages_html)
    /\ UNCHANGED <<h_in, h_i, parts, in_list, pageVars, fontVars, postVars,
                   ext, doc, render_mode, pn, pages, pages_html>>

NextHtml == HtmlElement \/ HtmlReturn \/ AssembleOne

SpecHtml == InitHtml /\ [][NextHtml]_vars

----------------------------------------------------------------------------
(* Claims about escaping *)

RawSpecial == {"<", ">", "&", "\"", "'"}
Entities == {"&lt;", "&gt;", "&amp;", "&quot;", "&#x27;"}

CountIn(t, S) == Cardinality({k \in DOMAIN t : t[k] \in S})

RECURSIVE SumSeq(_)
SumSeq(ns) == IF ns = <<>> THEN 0 ELSE Head(ns) + SumSeq(Tail(ns))

\* the text an element carries into the output
ElementText(e) ==
    IF e.type = CODE THEN join(e.lines)
    ELSE IF e.type = TABLE THEN join([r \in DOMAIN e.rows |-> join(e.rows[r])])
    ELSE IF e.type \in {IMAGE, RENDER} THEN e.alt
    ELSE join(spanTexts(e.spans))

\* C10: no '<', '>', '&' or quote character of a span text, Code line,
\* Table cell, alt text, table-of-contents title or document title is in
\* the output as itself: each is there as its entity.
C10_Escaped ==
    /\ \A k \in DOMAIN parts : CountIn(parts[k], RawSpecial) = 0
    /\ pc \in {"assemble", "done"} =>
          /\ CountIn(pages_html[1], RawSpecial) = 0
          /\ CountIn(pages_html[1], Entities)
                = SumSeq([k \in DOMAIN h_in |-> CountIn(ElementText(h_in[k]), RawSpecial)])
    /\ pc = "done" =>
          /\ CountIn(html_doc, RawSpecial) = 0
          /\ CountIn(html_doc, Entities)
                = CountIn(pages_html[1], Entities) + CountIn(toc[1][2], RawSpecial)
                    + 2 * CountIn(CHOOSE stem \in StemPool : TRUE, RawSpecial)

\* a body text "<s>" and a math span with a quote were rendered and assembled
C10_Witness ==
    /\ pc = "done"
    /\ Len(h_in) = 2
    /\ h_in[1].type = BODY /\ h_in[1].spans[1].text = <<"<", "s", ">">>
    /\ h_in[2].type = BULLET /\ is_math(h_in[2].spans[1].font)
    /\ toc[1][2] = <<"<", "s", ">">>
    /\ CountIn(html_doc, Entities) > 0

----------------------------------------------------------------------------
(* Claims about the list wrappers of the HTML renderer *)

\* the number of lists open after the first k parts
OpenLists(ps, k) ==
    Cardinality({j \in 1..k : ps[j] = <<"<ul>">>})
        - Cardinality({j \in 1..k : ps[j] = <<"</ul>">>})

BulletLevelsOk == \A k \in DOMAIN h_in : h_in[k].type = BULLET => h_in[k].level \in {0, 1}

\* C13: for an element sequence whose Bullet levels are 0 or 1, the open-list
\* counter is level + 1 when a <li> is emitted, 0 when any other element is
\* emitted and at the end of the sequence, and never negative; the output has
\* as many </ul> as <ul> tags, and every <li> is inside an open <ul>.
C13_ListCounter ==
    BulletLevelsOk =>
        /\ in_list >= 0
        /\ in_list = OpenLists(parts, Len(parts))
        /\ \A k \in DOMAIN parts :
            /\ OpenLists(parts, k) >= 0
            /\ parts[k][1] = "<li>" => OpenLists(parts, k) >= 1
        /\ (pc = "html" /\ h_i > 1) =>
            IF h_in[h_i - 1].type = BULLET
            THEN /\ Last(parts)[1] = "<li>"
                 /\ in_list = h_in[h_i - 1].level + 1
            ELSE /\ Last(parts)[1] \notin {"<li>", "<ul>", "</ul>"}
                 /\ in_list = 0
        /\ pc \in {"assemble", "done"} =>
            /\ in_list = 0
            /\ CountIn(pages_html[1], {"<ul>"}) = CountIn(pages_html[1], {"</ul>"})
            /\ CountIn(pages_html[1], {"<li>"}) =
                   Cardinality({k \in DOMAIN h_in : h_in[k].type = BULLET})

\* a Bullet of level 0 was rendered after one of level 1: one of the two
\* lists was closed before its <li>
C13_Witness ==
    /\ pc = "html"
    /\ h_i = 3
    /\ h_in[1].type = BULLET /\ h_in[1].level = 1
    /\ h_in[2].type = BULLET /\ h_in[2].level = 0
    /\ in_list = 1
    /\ Len(parts) = 5
    /\ parts[4] = <<"</ul>">>

----------------------------------------------------------------------------
(* extract_pdf and extract_pptx: the body of the page loop; convert_file   *)

slide_alt(n) == SlideWord \o <<" ">> \o str(n)

\* title or f"Slide {n}"
title_or(title, n) == IF title # None THEN title ELSE slide_alt(n)

\* the Render element put before the page's elements
attach_render_first(elems, page, n) ==
    <<Render(b64encode(page.pixmap), slide_alt(n))>> \o elems

\* elems.append(el(RENDER, ...)), n the 1-based page number
attach_render(elems, page, n) == Append(elems, Render(b64encode(page.pixmap), slide_alt(n)))

\* the elements and the table-of-contents entry of page p (0-based) of a PDF
extract_pdf_iteration(page, p, f, mode) ==
    LET r == extract_pdf_page(page, p, f)
    IN  [elems |-> IF should_render(mode, page) THEN attach_render(r.elements, page, p + 1)
                   ELSE r.elements,
         entry |-> <<p + 1, title_or(r.slide_title, p + 1)>>]

\* the elements and the table-of-contents entry of slide sn (1-based)
extract_pptx_iteration(slide, sn) ==
    LET r == extract_pptx_slide(slide, sn)
    IN  [elems |-> r.elements, entry |-> <<sn, title_or(r.slide_title, sn)>>]

----------------------------------------------------------------------------
(* Spec: convert_file with the HTML format on a PDF or a slide deck.       *)

Page(lines, drawings, images) ==
    [height |-> PageGeom.height, lines |-> lines, drawings |-> drawings,
     images |-> images, pixmap |-> <<"p", "x">>]

PT_empty == <<>>
PT_title_bullet == <<L_title, L_bullet, L_body>>
PT_math == <<L_math, L_math>>
PT_blank_math == <<L_blank_math>>
PT_labels == <<L_body, L_label, L_label, L_label, L_page_number>>

PageTexts == {PT_empty, PT_title_bullet, PT_math, PT_blank_math, PT_labels}
DrawingCounts == {4, 5}

PagePool ==
    {Page(t, d, <<>>) : t \in PageTexts, d \in DrawingCounts}
        \cup {Page(t, 4, imgs) : t \in {PT_empty, PT_title_bullet},
                                 imgs \in ImageLists \ {<<>>}}

PipeSlidePool ==
    {<<>>, <<S_levels>>, <<S_levels, S_title>>, <<S_picture, S_table, S_picture_bad>>}

RenderModes == {RENDER_AUTO, RENDER_ALL, RENDER_NONE}

Init ==
    /\ pc = "open"
    /\ ext \in {".pdf", ".pptx"}
    /\ doc \in SeqsUpTo(IF ext = ".pdf" THEN PagePool ELSE PipeSlidePool, MaxPages)
    /\ render_mode \in RenderModes
    /\ pn = 0
    /\ toc = <<>>
    /\ pages = <<>>
    /\ pages_html = <<>>
    /\ IdlePage /\ IdleFonts /\ IdlePost /\ IdleHtml

\* extract_pdf up to the page loop
OpenPdf ==
    /\ pc = "open" /\ ext = ".pdf"
    /\ pc' = "pages"
    /\ fs' = analyze_pdf_fonts(doc)
    /\ UNCHANGED <<lines_read, elements, list_depth, current_bullet, title_emitted,
                   slide_title, fontVars, postVars, htmlVars, fileVars>>

\* extract_pptx up to the slide loop
OpenPptx ==
    /\ pc = "open" /\ ext = ".pptx"
    /\ pc' = "pages"
    /\ UNCHANGED <<pageVars, fontVars, postVars, htmlVars, fileVars>>

\* one iteration of the page loop of extract_pdf
ExtractPdfPage ==
    /\ pc = "pages" /\ ext = ".pdf"
    /\ pn < Len(doc)
    /\ LET r == extract_pdf_iteration(doc[pn + 1], pn, fs, render_mode)
       IN  /\ toc' = Append(toc, r.entry)
           /\ pages' = Append(pages, r.elems)
    /\ pn' = pn + 1
    /\ UNCHANGED <<pc, ext, doc, render_mode, pages_html, pageVars, fontVars, postVars,
                   htmlVars>>

\* one iteration of the slide loop of extract_pptx
ExtractPptxSlide ==
    /\ pc = "pages" /\ ext = ".pptx"
    /\ pn < Len(doc)
    /\ LET r == extract_pptx_iteration(doc[pn + 1], pn + 1)
       IN  /\ toc' = Append(toc, r.entry)
           /\ pages' = Append(pages, r.elems)
    /\ pn' = pn + 1
    /\ UNCHANGED <<pc, ext, doc, render_mode, pages_html, pageVars, fontVars, postVars,
                   htmlVars>>

\* convert_file: pages_rendered = [elements_to_html(elems) for elems in pages_elements]
RenderPages ==
    /\ pc = "pages"
    /\ pn = Len(doc)
    /\ pc' = "assemble"
    /\ pages_html' = [k \in DOMAIN pages |-> elements_to_html(pages[k])]
    /\ UNCHANGED <<ext, doc, render_mode, pn, toc, pages, pageVars, fontVars, postVars,
                   htmlVars>>

\* convert_file: assemble_html(p.stem, toc, pages_rendered)
Assemble ==
    /\ pc = "assemble"
    /\ pc' = "done"
    /\ \E stem \in StemPool : html_doc' = assemble_html(stem, toc, pages_html)
    /\ UNCHANGED <<h_in, h_i, parts, in_list, pageVars, fontVars, postVars, fileVars>>

Next == OpenPdf \/ OpenPptx \/ ExtractPdfPage \/ ExtractPptxSlide \/ RenderPages \/ Assemble

Spec == Init /\ [][Next]_vars

----------------------------------------------------------------------------
(* Claims about the pipeline *)

HasRender(elems) == TypeIndices(elems, RENDER) # {}

\* C3: a page's element sequence holds at most one Render element, and a
\* Render element is the last element of the page.
C3_RenderLast ==
    \A k \in DOMAIN pages :
        /\ Cardinality(TypeIndices(pages[k], RENDER)) <= 1
        /\ HasRender(pages[k]) => Last(pages[k]).type = RENDER

\* a page with a Title, Image elements and a Render got its Render last
C3_Witness ==
    \E k \in DOMAIN pages :
        /\ TypeIndices(pages[k], TITLE) # {}
        /\ Cardinality(TypeIndices(pages[k], IMAGE)) = 2
        /\ Last(pages[k]).type = RENDER

PageSpans(page) ==
    UNION {{page.lines[l].spans[m] : m \in DOMAIN page.lines[l].spans} : l \in DOMAIN page.lines}

\* C4 as claimed: a Render is attached in mode 'all' always, in mode 'none'
\* never, and in mode 'auto' exactly when the page has more than 4 drawings
\* or a span whose font is a math font.
C4_RenderPolicyAnyMathSpan ==
    ext = ".pdf" =>
        \A k \in DOMAIN pages :
            HasRender(pages[k]) <=>
                \/ render_mode = RENDER_ALL
                \/ /\ render_mode = RENDER_AUTO
                   /\ \/ doc[k].drawings > 4
                      \/ \E sp \in PageSpans(doc[k]) : is_math(sp.font)

\* C4 as amended: in mode 'auto', exactly when the page has more than 4
\* drawings or a span of non-blank text whose font is a math font.
C4_RenderPolicy ==
    ext = ".pdf" =>
        \A k \in DOMAIN pages :
            HasRender(pages[k]) <=>
                \/ render_mode = RENDER_ALL
                \/ /\ render_mode = RENDER_AUTO
                   /\ \/ doc[k].drawings > 4
                      \/ \E sp \in PageSpans(doc[k]) :
                            is_math(sp.font) /\ \E c \in DOMAIN sp.text : sp.text[c] \notin Whitespace

\* in mode 'auto' with 4 drawings on each page, a page with math text has a
\* Render and a page whose only math-font span is blank has none
C4_Witness ==
    /\ render_mode = RENDER_AUTO
    /\ Len(pages) = 2
    /\ doc[1].drawings = 4 /\ doc[1].lines = PT_math /\ HasRender(pages[1])
    /\ doc[2].drawings = 4 /\ doc[2].lines = PT_blank_math /\ ~HasRender(pages[2])

ContainsSeq(t, sub) == \E i \in 1..(Len(t) - Len(sub) + 1) : SubSeq(t, i, i + Len(sub) - 1) = sub

\* C7: every table-of-contents entry, one per page in page order with the
\* page's title or "Slide n", links to "#slide-n", and the markup of page n
\* holds an element with the id "slide-n".
C7_TocAnchorsExist ==
    pc = "done" =>
        /\ Len(toc) = Len(doc)
        /\ \A k \in DOMAIN toc :
              /\ toc[k][1] = k
              /\ ContainsSeq(html_doc, toc_link(k) \o esc(toc[k][2]))
              /\ ContainsSeq(pages_html[k], <<"<h2 class=\"slide-title\" id=\"slide-">>
                                                \o str(k) \o <<"\">">>)

Indexed(sq) == [i \in DOMAIN sq |-> [idx |-> i, it |-> sq[i]]]
ItemOk(x) == x.it.ok
WithoutRender(elems) == IF HasRender(elems) THEN Front(elems) ELSE elems
GoodShape(sh) == ~(sh.is_picture /\ ~sh.has_table /\ ~sh.image_ok)

\* the Image elements of page k: one per image that can be extracted,
\* numbered by the image's place among all the images of the page
ExpectedImages(k) ==
    LET good == SelectSeq(Indexed(doc[k].images), ItemOk)
    IN  [m \in DOMAIN good |->
            Image(b64encode(good[m].it.image), good[m].it.ext,
                  SlideWord \o <<" ">> \o str(k) \o <<" ">> \o FigureWord \o <<" ">>
                      \o str(good[m].idx))]

ImageOk(img) == img.ok

\* C8 as claimed: the elements of a page with a failing image, its title
\* and its table-of-contents entry are those of the same page without the
\* failing image; every page is processed.
C8_FailingImageAbsent ==
    /\ pc # "open" /\ pc # "pages" => Len(pages) = Len(doc)
    /\ \A k \in DOMAIN pages :
          IF ext = ".pdf"
          THEN LET without == extract_pdf_page(
                                  [doc[k] EXCEPT !.images = SelectSeq(@, ImageOk)], k - 1, fs)
               IN  /\ WithoutRender(pages[k]) = without.elements
                   /\ toc[k] = <<k, title_or(without.slide_title, k)>>
          ELSE LET without == extract_pptx_slide(SelectSeq(doc[k], GoodShape), k)
               IN  /\ pages[k] = without.elements
                   /\ toc[k] = <<k, title_or(without.slide_title, k)>>

\* C8 as amended: the text elements, the title and the table-of-contents
\* entry of a page are those of the same page without images, followed by
\* one Image per image that can be extracted, in order, each with the alt
\* text of its place among all the images of the page (a failing image
\* leaves a gap in the numbering); a slide's elements are those of the slide
\* without the failing pictures; every page is processed.
C8_FailingImageSkipped ==
    /\ pc # "open" /\ pc # "pages" => Len(pages) = Len(doc)
    /\ \A k \in DOMAIN pages :
          IF ext = ".pdf"
          THEN LET without == extract_pdf_page([doc[k] EXCEPT !.images = <<>>], k - 1, fs)
               IN  /\ WithoutRender(pages[k]) = without.elements \o ExpectedImages(k)
                   /\ toc[k] = <<k, title_or(without.slide_title, k)>>
          ELSE LET without == extract_pptx_slide(SelectSeq(doc[k], GoodShape), k)
               IN  /\ pages[k] = without.elements
                   /\ toc[k] = <<k, title_or(without.slide_title, k)>>

\* a page whose second image of three fails kept its Title and two Images,
\* and the page after it was processed
C8_Witness ==
    /\ ext = ".pdf"
    /\ Len(pages) = 2
    /\ Len(doc[1].images) = 3 /\ ~doc[1].images[2].ok
    /\ doc[1].lines = PT_title_bullet
    /\ Cardinality(TypeIndices(pages[1], IMAGE)) = 2
    /\ TypeIndices(pages[1], TITLE) # {}
    /\ pages[2] # <<>>

====
